---- MODULE Spec2Model ----
(***************************************************************************)
(* Model of app/ai_engine.py: the DeepSeekTranslator streaming client.     *)
(*                                                                         *)
(* Bytes are integers 0..255, text is a sequence of Unicode code points.   *)
(* JSON values are tagged records:                                         *)
(*   [t |-> "null"]  [t |-> "bool", b]  [t |-> "num", n]  [t |-> "str", s] *)
(*   [t |-> "arr", a]  [t |-> "obj", k, v]   (k: keys, v: values, in order)*)
(* JsonLoads covers the JSON subset documented at its definition.          *)
(***************************************************************************)
EXTENDS Integers, Sequences, FiniteSets, TLC

(***************************************************************************)
(* Characters                                                              *)
(***************************************************************************)
Ord ==
  ("\n" :> 10) @@ ("\r" :> 13) @@ ("\t" :> 9) @@ (" " :> 32) @@ ("\"" :> 34)
  @@ ("," :> 44) @@ ("-" :> 45) @@ ("/" :> 47) @@ (":" :> 58) @@ ("[" :> 91)
  @@ ("\\" :> 92) @@ ("]" :> 93) @@ ("{" :> 123) @@ ("}" :> 125)
  @@ ("0" :> 48) @@ ("9" :> 57) @@ ("n" :> 110) @@ ("t" :> 116) @@ ("f" :> 102)

\* "data: "
DataPrefix == <<100, 97, 116, 97, 58, 32>>
\* "[DONE]"
DoneSentinel == <<91, 68, 79, 78, 69, 93>>
\* dictionary keys the code looks up
KeyChoices == <<99, 104, 111, 105, 99, 101, 115>>
KeyDelta == <<100, 101, 108, 116, 97>>
KeyContent == <<99, 111, 110, 116, 101, 110, 116>>
KeyFinishReason == <<102, 105, 110, 105, 115, 104, 95, 114, 101, 97, 115, 111, 110>>
KeyError == <<101, 114, 114, 111, 114>>
KeyMessage == <<109, 101, 115, 115, 97, 103, 101>>

(***************************************************************************)
(* bytes.decode('utf-8', errors='ignore'): a well-formed sequence of 1..4  *)
(* bytes gives one code point; any byte that does not start a well-formed  *)
(* sequence inside this very chunk is dropped.                             *)
(***************************************************************************)
IsCont(b) == b >= 128 /\ b <= 191

\* number of bytes of the well-formed sequence starting at bs[i], 0 if none
Utf8SeqLen(bs, i) ==
  LET b == bs[i]
      n == Len(bs)
      c(j) == i + j <= n /\ IsCont(bs[i + j])
  IN  IF b < 128 THEN 1
      ELSE IF b >= 194 /\ b <= 223 THEN (IF c(1) THEN 2 ELSE 0)
      ELSE IF b >= 224 /\ b <= 239 THEN
        (IF c(1) /\ c(2)
            /\ (b = 224 => bs[i + 1] >= 160)
            /\ (b = 237 => bs[i + 1] <= 159) THEN 3 ELSE 0)
      ELSE IF b >= 240 /\ b <= 244 THEN
        (IF c(1) /\ c(2) /\ c(3)
            /\ (b = 240 => bs[i + 1] >= 144)
            /\ (b = 244 => bs[i + 1] <= 143) THEN 4 ELSE 0)
      ELSE 0

Utf8CodePoint(bs, i, len) ==
  IF len = 1 THEN bs[i]
  ELSE IF len = 2 THEN (bs[i] - 192) * 64 + (bs[i + 1] - 128)
  ELSE IF len = 3 THEN
    (bs[i] - 224) * 4096 + (bs[i + 1] - 128) * 64 + (bs[i + 2] - 128)
  ELSE (bs[i] - 240) * 262144 + (bs[i + 1] - 128) * 4096
       + (bs[i + 2] - 128) * 64 + (bs[i + 3] - 128)

\* chunk.decode('utf-8', errors='ignore').  A byte inside a well-formed
\* sequence, after its first, is a continuation byte and starts no sequence
\* itself, so the decoded text is, in order, the code point of every
\* position that starts a well-formed sequence; every other byte is dropped.
DecodeIgnore(bs) ==
  LET cps == [i \in 1..Len(bs) |->
                LET len == Utf8SeqLen(bs, i)
                IN  IF len = 0 THEN -1 ELSE Utf8CodePoint(bs, i, len)]
      Kept(c) == c >= 0
  IN  SelectSeq(cps, Kept)

(***************************************************************************)
(* str.split('\n'), str.strip(), str.startswith                            *)
(***************************************************************************)
\* buffer.split('\n'): the segments between the newlines, always at least
\* one segment
SplitNewline(s) ==
  LET n == Len(s)
      IsNewline(i) == s[i] = 10
      nl == SelectSeq([i \in 1..n |-> i], IsNewline)
      cut == <<0>> \o nl \o <<n + 1>>
  IN  [k \in 1..(Len(nl) + 1) |-> SubSeq(s, cut[k] + 1, cut[k + 1] - 1)]

\* code points for which str.isspace() holds
PyWhitespace ==
  {9, 10, 11, 12, 13, 28, 29, 30, 31, 32, 133, 160, 5760, 8232, 8233, 8239,
   8287, 12288} \cup (8192..8202)

RECURSIVE FirstNonSpace(_, _)
FirstNonSpace(s, i) ==
  IF i > Len(s) THEN i
  ELSE IF s[i] \in PyWhitespace THEN FirstNonSpace(s, i + 1) ELSE i

RECURSIVE LastNonSpace(_, _)
LastNonSpace(s, j) ==
  IF j < 1 THEN j
  ELSE IF s[j] \in PyWhitespace THEN LastNonSpace(s, j - 1) ELSE j

\* line.strip()
Strip(s) ==
  LET i == FirstNonSpace(s, 1)
      j == LastNonSpace(s, Len(s))
  IN  IF i > j THEN <<>> ELSE SubSeq(s, i, j)

StartsWith(s, p) == Len(s) >= Len(p) /\ SubSeq(s, 1, Len(p)) = p

(***************************************************************************)
(* json.loads on text.  Subset: objects, arrays, strings (with the simple  *)
(* backslash escapes and \uXXXX without surrogate pairing), integers,      *)
(* true, false, null, JSON whitespace between tokens.  Fractions,          *)
(* exponents, NaN and Infinity are not modelled.  A syntax error           *)
(* (json.JSONDecodeError) is the value JErr.                               *)
(***************************************************************************)
JNull == [t |-> "null"]
JErr == [t |-> "err"]
JBool(b) == [t |-> "bool", b |-> b]
JNum(n) == [t |-> "num", n |-> n]
JStr(s) == [t |-> "str", s |-> s]
JArr(a) == [t |-> "arr", a |-> a]
JObj(k, v) == [t |-> "obj", k |-> k, v |-> v]

JsonWhitespace == {Ord[" "], Ord["\t"], Ord["\n"], Ord["\r"]}

RECURSIVE SkipWs(_, _)
SkipWs(s, i) ==
  IF i <= Len(s) /\ s[i] \in JsonWhitespace THEN SkipWs(s, i + 1) ELSE i

ParseFail(i) == [ok |-> FALSE, v |-> JErr, i |-> i]
ParseOk(v, i) == [ok |-> TRUE, v |-> v, i |-> i]

IsDigit(c) == c >= Ord["0"] /\ c <= Ord["9"]

HexVal(c) ==
  IF IsDigit(c) THEN c - 48
  ELSE IF c >= 97 /\ c <= 102 THEN c - 87
  ELSE IF c >= 65 /\ c <= 70 THEN c - 55
  ELSE -1

\* the character a one-letter escape stands for, -1 if it is no escape
EscapeChar(c) ==
  IF c \in {Ord["\""], Ord["\\"], Ord["/"]} THEN c
  ELSE IF c = 98 THEN 8
  ELSE IF c = Ord["f"] THEN 12
  ELSE IF c = Ord["n"] THEN 10
  ELSE IF c = 114 THEN 13
  ELSE IF c = Ord["t"] THEN 9
  ELSE -1

\* scanstring: s[i] is the first character after the opening quote
RECURSIVE ParseString(_, _, _)
ParseString(s, i, acc) ==
  IF i > Len(s) THEN ParseFail(i)
  ELSE IF s[i] = Ord["\""] THEN ParseOk(JStr(acc), i + 1)
  ELSE IF s[i] < 32 THEN ParseFail(i)
  ELSE IF s[i] # Ord["\\"] THEN ParseString(s, i + 1, Append(acc, s[i]))
  ELSE IF i + 1 > Len(s) THEN ParseFail(i)
  ELSE IF s[i + 1] = 117 THEN
    (IF i + 5 <= Len(s) /\ \A j \in 2..5 : HexVal(s[i + j]) >= 0
     THEN ParseString(s, i + 6,
            Append(acc, HexVal(s[i + 2]) * 4096 + HexVal(s[i + 3]) * 256
                        + HexVal(s[i + 4]) * 16 + HexVal(s[i + 5])))
     ELSE ParseFail(i))
  ELSE IF EscapeChar(s[i + 1]) >= 0
    THEN ParseString(s, i + 2, Append(acc, EscapeChar(s[i + 1])))
  ELSE ParseFail(i)

RECURSIVE ParseDigits(_, _, _)
ParseDigits(s, i, n) ==
  IF i <= Len(s) /\ IsDigit(s[i]) THEN ParseDigits(s, i + 1, n * 10 + (s[i] - 48))
  ELSE [n |-> n, i |-> i]

\* NUMBER_RE, integer part: -?(0|[1-9][0-9]*)
ParseNumber(s, i) ==
  LET neg == s[i] = Ord["-"]
      j == IF neg THEN i + 1 ELSE i
  IN  IF j > Len(s) \/ ~IsDigit(s[j]) THEN ParseFail(i)
      ELSE IF s[j] = Ord["0"] THEN ParseOk(JNum(0), j + 1)
      ELSE LET d == ParseDigits(s, j, 0)
           IN  ParseOk(JNum(IF neg THEN 0 - d.n ELSE d.n), d.i)

\* "null", "true", "false"
LitNull == <<110, 117, 108, 108>>
LitTrue == <<116, 114, 117, 101>>
LitFalse == <<102, 97, 108, 115, 101>>

HasAt(s, i, lit) ==
  i + Len(lit) - 1 <= Len(s) /\ SubSeq(s, i, i + Len(lit) - 1) = lit

\* The parser's operators take each intermediate result as a parameter.
RECURSIVE ParseValue(_, _)
RECURSIVE ParseItems(_, _, _)
RECURSIVE ParseMembers(_, _, _, _)

\* JSONArray, after an item and the whitespace behind it: "]" or ","
ItemsNext(s, acc, j) ==
  IF j > Len(s) THEN ParseFail(j)
  ELSE IF s[j] = Ord["]"] THEN ParseOk(JArr(acc), j + 1)
  ELSE IF s[j] = Ord[","] THEN ParseItems(s, SkipWs(s, j + 1), acc)
  ELSE ParseFail(j)

ItemsAfter(s, i, acc, r) ==
  IF ~r.ok THEN ParseFail(i) ELSE ItemsNext(s, Append(acc, r.v), SkipWs(s, r.i))

\* JSONArray: s[i] is the start of the next item
ParseItems(s, i, acc) == ItemsAfter(s, i, acc, ParseValue(s, i))

\* JSONObject, after a member and the whitespace behind it: "}" or ","
MembersNext(s, ks, vs, j) ==
  IF j > Len(s) THEN ParseFail(j)
  ELSE IF s[j] = Ord["}"] THEN ParseOk(JObj(ks, vs), j + 1)
  ELSE IF s[j] = Ord[","] THEN ParseMembers(s, SkipWs(s, j + 1), ks, vs)
  ELSE ParseFail(j)

MembersValue(s, ks, vs, key, c, r) ==
  IF ~r.ok THEN ParseFail(c)
  ELSE MembersNext(s, Append(ks, key), Append(vs, r.v), SkipWs(s, r.i))

MembersColon(s, ks, vs, key, c) ==
  IF c > Len(s) \/ s[c] # Ord[":"] THEN ParseFail(c)
  ELSE MembersValue(s, ks, vs, key, c, ParseValue(s, SkipWs(s, c + 1)))

MembersKey(s, i, ks, vs, k) ==
  IF ~k.ok THEN ParseFail(i) ELSE MembersColon(s, ks, vs, k.v.s, SkipWs(s, k.i))

\* JSONObject: s[i] must be the opening quote of the next key
ParseMembers(s, i, ks, vs) ==
  IF i > Len(s) \/ s[i] # Ord["\""] THEN ParseFail(i)
  ELSE MembersKey(s, i, ks, vs, ParseString(s, i + 1, <<>>))

\* after "{" and whitespace
ObjectAt(s, j) ==
  IF j <= Len(s) /\ s[j] = Ord["}"] THEN ParseOk(JObj(<<>>, <<>>), j + 1)
  ELSE ParseMembers(s, j, <<>>, <<>>)

\* after "[" and whitespace
ArrayAt(s, j) ==
  IF j <= Len(s) /\ s[j] = Ord["]"] THEN ParseOk(JArr(<<>>), j + 1)
  ELSE ParseItems(s, j, <<>>)

\* scan_once
ParseValue(s, i) ==
  IF i > Len(s) THEN ParseFail(i)
  ELSE IF s[i] = Ord["\""] THEN ParseString(s, i + 1, <<>>)
  ELSE IF s[i] = Ord["{"] THEN ObjectAt(s, SkipWs(s, i + 1))
  ELSE IF s[i] = Ord["["] THEN ArrayAt(s, SkipWs(s, i + 1))
  ELSE IF HasAt(s, i, LitNull) THEN ParseOk(JNull, i + 4)
  ELSE IF HasAt(s, i, LitTrue) THEN ParseOk(JBool(TRUE), i + 4)
  ELSE IF HasAt(s, i, LitFalse) THEN ParseOk(JBool(FALSE), i + 5)
  ELSE ParseNumber(s, i)

\* decode(): the value, provided only whitespace follows it
WholeValue(s, r) == IF r.ok /\ SkipWs(s, r.i) = Len(s) + 1 THEN r.v ELSE JErr

\* json.loads(text)
JsonLoads(s) == WholeValue(s, ParseValue(s, SkipWs(s, 1)))

(***************************************************************************)
(* Python operations on decoded values                                     *)
(***************************************************************************)
\* bool(x)
Truthy(x) ==
  CASE x.t = "null" -> FALSE
    [] x.t = "bool" -> x.b
    [] x.t = "num" -> x.n # 0
    [] x.t = "str" -> x.s # <<>>
    [] x.t = "arr" -> x.a # <<>>
    [] x.t = "obj" -> x.k # <<>>

\* key in d, for a dict d
HasKey(d, key) == \E i \in 1..Len(d.k) : d.k[i] = key

\* d[key] for a dict d holding key: the last member of that name wins
GetKey(d, key) ==
  d.v[CHOOSE i \in 1..Len(d.k) :
        d.k[i] = key /\ \A j \in (i + 1)..Len(d.k) : d.k[j] # key]

\* d.get(key, default)
DictGet(d, key, default) == IF HasKey(d, key) THEN GetKey(d, key) ELSE default

\* needle in haystack, for two strings
IsSubstring(needle, hay) ==
  \E i \in 1..(Len(hay) - Len(needle) + 1) :
    SubSeq(hay, i, i + Len(needle) - 1) = needle

(***************************************************************************)
(* Fragments: what the generators yield                                    *)
(***************************************************************************)
Fragment(kind, val) == [kind |-> kind, val |-> val]
ContentFrag(v) == Fragment("content", v)

\* the result of handling one line, or one chunk's lines: the fragments
\* yielded, and whether an exception other than JSONDecodeError was raised
Nothing == [frags |-> <<>>, raised |-> FALSE]
Yield(v) == [frags |-> <<ContentFrag(v)>>, raised |-> FALSE]
Raise == [frags |-> <<>>, raised |-> TRUE]

(***************************************************************************)
(* _call_deepseek_api, the streaming branch: one decoded event             *)
(***************************************************************************)
\* delta = choice.get("delta", {}); if delta and "content" in delta: ...
DeltaContent(delta) ==
  IF ~Truthy(delta) THEN Nothing
  ELSE IF delta.t = "obj" THEN
    (IF HasKey(delta, KeyContent)
     THEN (LET content == GetKey(delta, KeyContent)
           IN  IF Truthy(content) THEN Yield(content) ELSE Nothing)
     ELSE Nothing)
  ELSE IF delta.t = "str" THEN
    \* substring test, then str["content"]: TypeError
    (IF IsSubstring(KeyContent, delta.s) THEN Raise ELSE Nothing)
  ELSE IF delta.t = "arr" THEN
    \* membership test, then list["content"]: TypeError
    (IF \E i \in 1..Len(delta.a) : delta.a[i] = JStr(KeyContent)
     THEN Raise ELSE Nothing)
  ELSE Raise  \* "content" in <number or True>: TypeError

\* the body of the try at line 168, after json.loads succeeded
DecodeEvent(data_obj) ==
  IF data_obj.t # "obj" THEN Raise  \* no .get: AttributeError
  ELSE
    LET choices == DictGet(data_obj, KeyChoices, JNull)
    IN  IF ~Truthy(choices) THEN Nothing
        ELSE IF choices.t \in {"num", "bool"} THEN Raise  \* len(): TypeError
        ELSE IF choices.t = "obj" THEN Raise  \* choices[0]: KeyError
        ELSE
          LET first == IF choices.t = "arr" THEN choices.a[1]
                       ELSE JStr(<<choices.s[1]>>)
          IN  IF first.t # "obj" THEN Raise  \* no .get: AttributeError
              ELSE DeltaContent(DictGet(first, KeyDelta, JObj(<<>>, <<>>)))

\* the JSONDecodeError handler missing: the error leaves the loop
OnJSONDecodeErrorAbort == Raise

\* except json.JSONDecodeError: print(...); continue
OnJSONDecodeError == Nothing

\* json.loads raised JSONDecodeError, or the event is decoded
EventOrError(data_obj) ==
  IF data_obj = JErr THEN OnJSONDecodeError ELSE DecodeEvent(data_obj)

\* the sentinel treated as a failure of the stream
OnDoneAbort == Raise

\* if data_str == "[DONE]": continue
OnDone == Nothing

\* line[6:], then the [DONE] test, then the try block
ProcessData(data_str) ==
  IF data_str = DoneSentinel THEN OnDone ELSE EventOrError(JsonLoads(data_str))

\* the line after line.strip()
ProcessStripped(line) ==
  IF line = <<>> THEN Nothing
  ELSE IF ~StartsWith(line, DataPrefix) THEN Nothing
  ELSE ProcessData(SubSeq(line, 7, Len(line)))

\* one iteration of "for line in lines[:-1]"
ProcessLine(raw) == ProcessStripped(Strip(raw))

\* the for loop: an exception leaves it, the fragments yielded before stay
RECURSIVE ProcessLinesFrom(_, _, _)
AfterLine(lines, i, acc, r) ==
  IF r.raised THEN [frags |-> acc \o r.frags, raised |-> TRUE]
  ELSE ProcessLinesFrom(lines, i + 1, acc \o r.frags)

ProcessLinesFrom(lines, i, acc) ==
  IF i > Len(lines) THEN [frags |-> acc, raised |-> FALSE]
  ELSE AfterLine(lines, i, acc, ProcessLine(lines[i]))

ProcessLines(lines) == ProcessLinesFrom(lines, 1, <<>>)

\* "for line in lines" in place of "for line in lines[:-1]"
CompleteLinesAll(lines) == lines

\* lines[:-1]
CompleteLines(lines) == SubSeq(lines, 1, Len(lines) - 1)

\* lines[-1] if lines else ""
LastLine(lines) == IF lines = <<>> THEN <<>> ELSE lines[Len(lines)]

\* after the for loop: buffer = lines[-1]; an exception skips the assignment
ChunkResult(joined, lines, r) ==
  [frags |-> r.frags, raised |-> r.raised,
   buffer |-> IF r.raised THEN joined ELSE LastLine(lines)]

\* lines = buffer.split('\n'), then the for loop
ProcessBuffer(joined, lines) ==
  ChunkResult(joined, lines, ProcessLines(CompleteLines(lines)))

\* buffer += chunk.decode(...) has run
ProcessJoined(joined) == ProcessBuffer(joined, SplitNewline(joined))

\* the body of "async for chunk in response.content.iter_any()"
ProcessChunk(buf, chunk) ==
  IF chunk = <<>> THEN [frags |-> <<>>, raised |-> FALSE, buffer |-> buf]
  ELSE ProcessJoined(buf \o DecodeIgnore(chunk))

(***************************************************************************)
(* Response bodies                                                         *)
(***************************************************************************)
\* data: {"choices":[{"delta":{"content":"X"}}]}
LineX ==
  <<100, 97, 116, 97, 58, 32, 123, 34, 99, 104, 111, 105, 99, 101, 115, 34,
    58, 91, 123, 34, 100, 101, 108, 116, 97, 34, 58, 123, 34, 99, 111, 110,
    116, 101, 110, 116, 34, 58, 34, 88, 34, 125, 125, 93, 125>>

\* data: {"choices":[{"delta":{"content":"Y"}}]}
LineY ==
  <<100, 97, 116, 97, 58, 32, 123, 34, 99, 104, 111, 105, 99, 101, 115, 34,
    58, 91, 123, 34, 100, 101, 108, 116, 97, 34, 58, 123, 34, 99, 111, 110,
    116, 101, 110, 116, 34, 58, 34, 89, 34, 125, 125, 93, 125>>

\* data: {"choices":[{"delta":{"content":"<U+00E9>"}}]}, U+00E9 as bytes 195 169
LineAccent ==
  <<100, 97, 116, 97, 58, 32, 123, 34, 99, 104, 111, 105, 99, 101, 115, 34,
    58, 91, 123, 34, 100, 101, 108, 116, 97, 34, 58, 123, 34, 99, 111, 110,
    116, 101, 110, 116, 34, 58, 34, 195, 169, 34, 125, 125, 93, 125>>

\* data: {"choices":[{"delta":{"content":"a<U+597D>b"}}]}, U+597D as bytes 229 165 189
LineHan ==
  <<100, 97, 116, 97, 58, 32, 123, 34, 99, 104, 111, 105, 99, 101, 115, 34,
    58, 91, 123, 34, 100, 101, 108, 116, 97, 34, 58, 123, 34, 99, 111, 110,
    116, 101, 110, 116, 34, 58, 34, 97, 229, 165, 189, 98, 34, 125, 125,
    93, 125>>

\* data: [DONE]
LineDone ==
  <<100, 97, 116, 97, 58, 32, 91, 68, 79, 78, 69, 93>>

\* data: {not json
LineNotJson ==
  <<100, 97, 116, 97, 58, 32, 123, 110, 111, 116, 32, 106, 115, 111, 110>>

\* : ping
LineComment ==
  <<58, 32, 112, 105, 110, 103>>

\* data:{"choices":[{"delta":{"content":"N"}}]}
LineNoSpace ==
  <<100, 97, 116, 97, 58, 123, 34, 99, 104, 111, 105, 99, 101, 115, 34, 58,
    91, 123, 34, 100, 101, 108, 116, 97, 34, 58, 123, 34, 99, 111, 110,
    116, 101, 110, 116, 34, 58, 34, 78, 34, 125, 125, 93, 125>>

\* data: {"choices":[{"delta":{},"finish_reason":"stop"}]}
LineFinish ==
  <<100, 97, 116, 97, 58, 32, 123, 34, 99, 104, 111, 105, 99, 101, 115, 34,
    58, 91, 123, 34, 100, 101, 108, 116, 97, 34, 58, 123, 125, 44, 34, 102,
    105, 110, 105, 115, 104, 95, 114, 101, 97, 115, 111, 110, 34, 58, 34,
    115, 116, 111, 112, 34, 125, 93, 125>>

\* data: {"choices":[{"delta":{"content":""}}]}
LineEmptyContent ==
  <<100, 97, 116, 97, 58, 32, 123, 34, 99, 104, 111, 105, 99, 101, 115, 34,
    58, 91, 123, 34, 100, 101, 108, 116, 97, 34, 58, 123, 34, 99, 111, 110,
    116, 101, 110, 116, 34, 58, 34, 34, 125, 125, 93, 125>>

\* data: {"choices":[{"delta":{"role":"assistant"}}]}
LineRole ==
  <<100, 97, 116, 97, 58, 32, 123, 34, 99, 104, 111, 105, 99, 101, 115, 34,
    58, 91, 123, 34, 100, 101, 108, 116, 97, 34, 58, 123, 34, 114, 111,
    108, 101, 34, 58, 34, 97, 115, 115, 105, 115, 116, 97, 110, 116, 34,
    125, 125, 93, 125>>

\* data: {"choices":[],"usage":null}
LineNoChoices ==
  <<100, 97, 116, 97, 58, 32, 123, 34, 99, 104, 111, 105, 99, 101, 115, 34,
    58, 91, 93, 44, 34, 117, 115, 97, 103, 101, 34, 58, 110, 117, 108, 108,
    125>>

\* data: 5
LineNumber ==
  <<100, 97, 116, 97, 58, 32, 53>>

\* data: {"choices":[null]}
LineNullChoice ==
  <<100, 97, 116, 97, 58, 32, 123, 34, 99, 104, 111, 105, 99, 101, 115, 34,
    58, 91, 110, 117, 108, 108, 93, 125>>

\* data: {"choices":[{"delta":{"content":7}}]}
LineIntContent ==
  <<100, 97, 116, 97, 58, 32, 123, 34, 99, 104, 111, 105, 99, 101, 115,
    34, 58, 91, 123, 34, 100, 101, 108, 116, 97, 34, 58, 123, 34, 99, 111,
    110, 116, 101, 110, 116, 34, 58, 55, 125, 125, 93, 125>>

\* {"error":{"message":"rate limited"}}
BodyRateLimited ==
  <<123, 34, 101, 114, 114, 111, 114, 34, 58, 123, 34, 109, 101, 115, 115,
    97, 103, 101, 34, 58, 34, 114, 97, 116, 101, 32, 108, 105, 109, 105,
    116, 101, 100, 34, 125, 125>>

\* <html>Bad Gateway</html>
BodyHtml ==
  <<60, 104, 116, 109, 108, 62, 66, 97, 100, 32, 71, 97, 116, 101, 119, 97,
    121, 60, 47, 104, 116, 109, 108, 62>>

\* {"error":"quota message"}
BodyErrorString ==
  <<123, 34, 101, 114, 114, 111, 114, 34, 58, 34, 113, 117, 111, 116, 97,
    32, 109, 101, 115, 115, 97, 103, 101, 34, 125>>

\* {"error":{"code":7}}
BodyNoMessage ==
  <<123, 34, 101, 114, 114, 111, 114, 34, 58, 123, 34, 99, 111, 100, 101,
    34, 58, 55, 125, 125>>

\* {"error":<byte 255>}
BodyBadUtf8 ==
  <<123, 34, 101, 114, 114, 111, 114, 34, 58, 255, 125>>

\* "error"
BodyJsonString ==
  <<34, 101, 114, 114, 111, 114, 34>>

\* ["error"]
BodyJsonList ==
  <<91, 34, 101, 114, 114, 111, 114, 34, 93>>

\* 5
BodyJsonNumber ==
  <<53>>

\* {"error":null}
BodyErrorNull ==
  <<123, 34, 101, 114, 114, 111, 114, 34, 58, 110, 117, 108, 108, 125>>

\* {"error":["message"]}
BodyErrorList ==
  <<123, 34, 101, 114, 114, 111, 114, 34, 58, 91, 34, 109, 101, 115, 115,
    97, 103, 101, 34, 93, 125>>

\* {"error":{"message":7}}
BodyMessageNumber ==
  <<123, 34, 101, 114, 114, 111, 114, 34, 58, 123, 34, 109, 101, 115, 115,
    97, 103, 101, 34, 58, 55, 125, 125>>

\* rate limited
TextRateLimited ==
  <<114, 97, 116, 101, 32, 108, 105, 109, 105, 116, 101, 100>>

\* {"choices":[{"message":{"content":"Hi"}}]}
BodyCompletion ==
  <<123, 34, 99, 104, 111, 105, 99, 101, 115, 34, 58, 91, 123, 34, 109, 101,
    115, 115, 97, 103, 101, 34, 58, 123, 34, 99, 111, 110, 116, 101, 110,
    116, 34, 58, 34, 72, 105, 34, 125, 125, 93, 125>>

\* each line followed by "\n"
RECURSIVE Terminated(_)
Terminated(ls) ==
  IF ls = <<>> THEN <<>> ELSE Head(ls) \o <<10>> \o Terminated(Tail(ls))

\* two events separated by a blank line, CRLF after the second, then [DONE]
StreamTypical ==
  LineX \o <<10, 10>> \o LineY \o <<13, 10>> \o LineDone \o <<10>>
StreamUtf8 == Terminated(<<LineAccent, LineHan>>)
StreamMalformed == Terminated(<<LineNotJson, LineX>>)
\* the last line has no newline
StreamTail == Terminated(<<LineX>>) \o LineY
StreamBadShape == Terminated(<<LineX, LineNumber, LineY>>)
StreamSkipped == Terminated(<<LineComment, LineNoSpace, LineEmptyContent>>)
StreamFinish == Terminated(<<LineRole, LineFinish, LineNoChoices>>)
StreamNullChoice == Terminated(<<LineNullChoice>>)
\* an event after the sentinel
StreamAfterDone == Terminated(<<LineDone, LineY>>)
\* a content value that is a number
StreamIntContent == Terminated(<<LineIntContent>>)

\* the byte streams a 200 response to a streaming request may carry
Streams ==
  {<<>>, StreamTypical, StreamUtf8, StreamMalformed, StreamTail,
   StreamBadShape, StreamSkipped, StreamFinish, StreamNullChoice,
   StreamIntContent, StreamAfterDone}

\* the bodies of non-200 responses
ErrorBodies ==
  {BodyRateLimited, BodyHtml, BodyErrorString, BodyNoMessage, BodyBadUtf8,
   Terminated(<<LineX>>), BodyJsonString, BodyJsonList, BodyJsonNumber,
   BodyErrorNull, BodyErrorList, BodyMessageNumber}

\* the bodies of 200 responses to a non-streaming request
JsonBodies == {BodyCompletion, BodyHtml, Terminated(<<LineX>>)}

ErrorStatuses == {429, 500}

(***************************************************************************)
(* State                                                                   *)
(***************************************************************************)
VARIABLES
  pc,        \* where the one translation call stands: "idle", "posting",
             \* "error_body", "streaming", "json_body", "done", "raised"
  call,      \* its arguments: text, direction, stream
  request,   \* the request data built for it, NoRequest if none
  resp,      \* the response: status and body bytes
  pos,       \* number of body bytes delivered by iter_any() so far
  buffer,    \* the decoder's carried text
  decoded,   \* history: all text decoded from the chunks so far
  emitted,   \* the fragments the call has yielded so far
  failure,   \* the exception that ended the call, "none" if none
  posts,     \* HTTP requests issued, over all calls
  ncalls,    \* calls started
  joined,    \* what a stream=False caller got from "".join, NotJoined before
  session,   \* the call's local variable session: what get_session() returned
  _session,  \* DeepSeekTranslator._session: None or a session id
  closed,    \* the sessions whose .closed is true
  created,   \* number of sessions created; ids are 1..created
  co,        \* the coroutines that use the translator's session concurrently
  _translator_instance  \* the global: Translator once created, None when cleared

callVars == <<pc, call, request, resp, pos, buffer, decoded, emitted, failure,
              posts, ncalls, joined, session>>
sessVars == <<_session, closed, created>>
coVars == <<co, _translator_instance>>
vars == <<callVars, sessVars, coVars>>

\* number of translation calls in one behaviour
MaxCalls == 2

None == 0
\* the one DeepSeekTranslator that get_translator() created
Translator == 1
NoRequest == [stream |-> FALSE, direction |-> "none", input |-> <<>>]
NoCall == [text |-> <<>>, direction |-> "none", stream |-> FALSE]
NoResponse == [status |-> 0, body |-> <<>>]
NotJoined == [raised |-> FALSE, text |-> <<-1>>]

\* the input texts: empty, blanks, an ideographic space, " hi"
Texts == {<<>>, <<32, 10, 9>>, <<12288>>, <<32, 104, 105>>}

Directions == {"pm-to-dev", "dev-to-pm"}

(***************************************************************************)
(* Transport session: get_session, close                                   *)
(***************************************************************************)
\* "self._session is None" alone
NeedsSessionNoneOnly == _session = None

\* self._session is None or self._session.closed
NeedsSession == _session = None \/ _session \in closed

\* get_session() without the test of .closed: a closed session is handed out
get_sessionIgnoringClosed ==
  IF _session = None
  THEN /\ created' = created + 1
       /\ _session' = created + 1
       /\ closed' = closed
  ELSE UNCHANGED sessVars

\* get_session(); it has no await inside, so it is one step
get_session ==
  IF NeedsSession
  THEN /\ created' = created + 1
       /\ _session' = created + 1
       /\ closed' = closed
  ELSE UNCHANGED sessVars

(***************************************************************************)
(* Error translation: the except clauses of _call_deepseek_api             *)
(***************************************************************************)
\* ClientConnectorError, other ClientError, asyncio.TimeoutError, any other
\* Exception
ExceptionKinds == {"connector", "client", "timeout", "unknown"}

\* the last clause, "except Exception", missing
CaughtWithoutCatchAll(kind) == kind \in {"connector", "client", "timeout"}

\* whether one of the four except clauses catches the exception
Caught(kind) == kind \in ExceptionKinds

\* "except aiohttp.ClientError" placed before "except
\* aiohttp.ClientConnectorError", which is one of its subclasses
DiagnosticClientErrorFirst(kind) ==
  CASE kind \in {"connector", "client"} -> <<Fragment("http_error", JNull)>>
    [] kind = "timeout" -> <<Fragment("timeout_error", JNull)>>
    [] kind = "unknown" -> <<Fragment("unknown_error", JNull)>>

\* what the clause that catches it yields
Diagnostic(kind) ==
  CASE kind = "connector" ->
         <<Fragment("network_error", JNull), Fragment("checklist", JNull)>>
    [] kind = "client" -> <<Fragment("http_error", JNull)>>
    [] kind = "timeout" -> <<Fragment("timeout_error", JNull)>>
    [] kind = "unknown" -> <<Fragment("unknown_error", JNull)>>

\* the handler replacing what was yielded instead of following it
FailDroppingEmitted(kind, frags) ==
  /\ failure' = kind
  /\ emitted' = Diagnostic(kind)
  /\ pc' = "done"

\* an exception raised inside the try block after the fragments frags
Fail(kind, frags) ==
  /\ failure' = kind
  /\ IF Caught(kind)
     THEN /\ emitted' = emitted \o frags \o Diagnostic(kind)
          /\ pc' = "done"
     ELSE /\ emitted' = emitted \o frags
          /\ pc' = "raised"

(***************************************************************************)
(* The non-200 branch and the non-streaming branch of _call_deepseek_api   *)
(***************************************************************************)
\* response.text() and response.json() decode strictly (UTF-8 taken as the
\* charset): they raise UnicodeDecodeError unless every byte starts a
\* well-formed sequence or continues one
StrictDecodable(bs) ==
  \A i \in 1..Len(bs) :
    \/ Utf8SeqLen(bs, i) > 0
    \/ /\ IsCont(bs[i])
       /\ \E j \in 1..(i - 1) : i - j <= 3 /\ Utf8SeqLen(bs, j) > i - j

\* f"API错误 (HTTP {response.status})"
GenericMessage(status) == [t |-> "generic", status |-> status]

\* the outcome of an expression: its value, or that it raised
Value(v) == [raised |-> FALSE, v |-> v]
Raised == [raised |-> TRUE, v |-> JNull]

\* key in x: a key of a dict, a substring of a str, an item of a list;
\* TypeError for None, a bool or a number
PyIn(key, x) ==
  CASE x.t = "obj" -> Value(HasKey(x, key))
    [] x.t = "str" -> Value(IsSubstring(key, x.s))
    [] x.t = "arr" -> Value(\E i \in 1..Len(x.a) : x.a[i] = JStr(key))
    [] OTHER -> Raised

\* x[key] for a str key: the member of a dict, KeyError without it,
\* TypeError for anything that is not a dict
Subscript(x, key) ==
  IF x.t = "obj" /\ HasKey(x, key) THEN Value(GetKey(x, key)) ELSE Raised

\* "message" in error_json["error"], then error_json["error"]["message"]
MessageIn(err) ==
  IF err.raised \/ PyIn(KeyMessage, err.v).raised THEN Raised
  ELSE IF PyIn(KeyMessage, err.v).v THEN Subscript(err.v, KeyMessage)
  ELSE Value(JErr)

\* lines 139-141: the message, JErr as value when a test is false and
\* error_msg is left as it was; json.loads raising is JErr as argument
ExtractMessage(error_json) ==
  IF error_json = JErr \/ PyIn(KeyError, error_json).raised THEN Raised
  ELSE IF PyIn(KeyError, error_json).v
       THEN MessageIn(Subscript(error_json, KeyError))
  ELSE Value(JErr)

\* error_msg = error_json["error"] in place of the two lookups
MessageOfErrorMember(status, error_json) ==
  IF error_json.t = "obj" /\ HasKey(error_json, KeyError)
  THEN GetKey(error_json, KeyError)
  ELSE GenericMessage(status)

\* error_msg after lines 136-143: the bare except swallows whatever the
\* extraction raised and leaves the generic text
MessageOf(status, error_json) ==
  IF ExtractMessage(error_json).raised \/ ExtractMessage(error_json).v = JErr
  THEN GenericMessage(status)
  ELSE ExtractMessage(error_json).v

ErrorMessage(status, error_text) == MessageOf(status, JsonLoads(error_text))

\* lines 193-201: choices[0].message.content of the decoded body
NonStreamContent(result) ==
  IF result.t # "obj" THEN Raise
  ELSE
    LET choices == DictGet(result, KeyChoices, JNull)
    IN  IF ~Truthy(choices) THEN Nothing
        ELSE IF choices.t \in {"num", "bool", "obj"} THEN Raise
        ELSE
          LET first == IF choices.t = "arr" THEN choices.a[1]
                       ELSE JStr(<<choices.s[1]>>)
          IN  IF first.t # "obj" THEN Raise
              ELSE
                LET message == DictGet(first, KeyMessage, JNull)
                IN  IF ~Truthy(message) THEN Nothing
                    ELSE IF message.t # "obj" THEN Raise
                    ELSE LET content == DictGet(message, KeyContent, JNull)
                         IN  IF Truthy(content) THEN Yield(content)
                             ELSE Nothing

(***************************************************************************)
(* Translation calls                                                       *)
(***************************************************************************)
\* "not text" alone
EmptyInputNoStrip(text) == text = <<>>

\* not text or not text.strip()
EmptyInput(text) == text = <<>> \/ Strip(text) = <<>>

\* "请输入有效的产品需求" / "请输入有效的技术方案"
Prompt(direction) ==
  IF direction = "pm-to-dev" THEN Fragment("prompt_requirement", JNull)
  ELSE Fragment("prompt_solution", JNull)

\* _create_messages and _create_request_data
CreateRequest(text, direction, stream) ==
  [stream |-> stream, direction |-> direction, input |-> text]

\* a generator that took up the buffer and the position of the one before
BeginCallResuming(text, direction, stream) ==
  /\ pc \in {"idle", "done"}
  /\ ncalls < MaxCalls
  /\ ncalls' = ncalls + 1
  /\ call' = [text |-> text, direction |-> direction, stream |-> stream]
  /\ resp' = NoResponse
  /\ failure' = "none"
  /\ joined' = NotJoined
  /\ UNCHANGED <<pos, buffer, decoded>>

\* a new generator object: its locals start fresh
BeginCall(text, direction, stream) ==
  /\ pc \in {"idle", "done"}
  /\ ncalls < MaxCalls
  /\ ncalls' = ncalls + 1
  /\ call' = [text |-> text, direction |-> direction, stream |-> stream]
  /\ resp' = NoResponse
  /\ pos' = 0
  /\ buffer' = <<>>
  /\ decoded' = <<>>
  /\ failure' = "none"
  /\ joined' = NotJoined

\* _call_deepseek_api up to session.post(...)
CallApi(text, direction, stream) ==
  /\ get_session
  /\ session' = _session'
  /\ request' = CreateRequest(text, direction, stream)
  /\ posts' = posts + 1
  /\ emitted' = <<>>
  /\ pc' = "posting"

TranslateStream(text, direction) ==
  /\ BeginCall(text, direction, TRUE)
  /\ IF EmptyInput(text)
     THEN /\ emitted' = <<Prompt(direction)>>
          /\ pc' = "done"
          /\ request' = NoRequest
          /\ session' = None
          /\ UNCHANGED <<posts, sessVars>>
     ELSE CallApi(text, direction, TRUE)
  /\ UNCHANGED coVars

translate_pm_to_dev_stream == \E text \in Texts : TranslateStream(text, "pm-to-dev")

translate_dev_to_pm_stream == \E text \in Texts : TranslateStream(text, "dev-to-pm")

\* _call_deepseek_api(messages, stream=False) called on its own
call_non_streaming ==
  \E direction \in Directions :
    /\ BeginCall(<<104, 105>>, direction, FALSE)
    /\ CallApi(<<104, 105>>, direction, FALSE)
    /\ UNCHANGED coVars

Responses(stream) ==
  [status : ErrorStatuses, body : ErrorBodies]
    \cup [status : {200}, body : IF stream THEN Streams ELSE JsonBodies]

\* session.post raises before a response is there
PostFails ==
  /\ pc = "posting"
  /\ \E kind \in ExceptionKinds : Fail(kind, <<>>)
  /\ UNCHANGED <<call, request, resp, pos, buffer, decoded, posts, ncalls, joined, session, sessVars, coVars>>

\* the status check missing
BranchIgnoringStatus(status, stream) ==
  IF stream THEN "streaming" ELSE "json_body"

\* if response.status != 200: ... return; if stream: ... else: ...
Branch(status, stream) ==
  IF status # 200 THEN "error_body"
  ELSE IF stream THEN "streaming" ELSE "json_body"

\* the response's status line and headers arrive
ResponseArrives ==
  /\ pc = "posting"
  /\ \E r \in Responses(call.stream) :
       /\ resp' = r
       /\ pc' = Branch(r.status, call.stream)
  /\ UNCHANGED <<call, request, pos, buffer, decoded, emitted, failure, posts,
                 ncalls, joined, session, sessVars, coVars>>

\* lines 134-146
ReadErrorBody ==
  /\ pc = "error_body"
  /\ IF StrictDecodable(resp.body)
     THEN /\ emitted' = Append(emitted,
                          Fragment("system_error",
                                   ErrorMessage(resp.status, DecodeIgnore(resp.body))))
          /\ pc' = "done"
          /\ failure' = "none"
     ELSE Fail("unknown", <<>>)
  /\ pos' = Len(resp.body)
  /\ UNCHANGED <<call, request, resp, buffer, decoded, posts, ncalls, joined, session, sessVars, coVars>>

\* the transport fails while response.text() reads the body
ErrorBodyFails ==
  /\ pc = "error_body"
  /\ \E kind \in {"client", "timeout"} : Fail(kind, <<>>)
  /\ UNCHANGED <<call, request, resp, pos, buffer, decoded, posts, ncalls, joined, session, sessVars, coVars>>

\* the loop body ran on a chunk of n bytes with result r
Deliver(n, text, r) ==
  /\ pos' = pos + n
  /\ buffer' = r.buffer
  /\ decoded' = decoded \o text
  /\ IF r.raised THEN Fail("unknown", r.frags)
     ELSE /\ emitted' = emitted \o r.frags
          /\ UNCHANGED <<pc, failure>>

\* iter_any() delivers the next n bytes
ReceiveChunk ==
  /\ pc = "streaming"
  /\ \E n \in 1..(Len(resp.body) - pos) :
       Deliver(n, DecodeIgnore(SubSeq(resp.body, pos + 1, pos + n)),
               ProcessChunk(buffer, SubSeq(resp.body, pos + 1, pos + n)))
  /\ UNCHANGED <<call, request, resp, posts, ncalls, joined, session, sessVars, coVars>>

\* iter_any() ends: the remote closed the stream
StreamExhausted ==
  /\ pc = "streaming"
  /\ pos = Len(resp.body)
  /\ pc' = "done"
  /\ UNCHANGED <<call, request, resp, pos, buffer, decoded, emitted, failure,
                 posts, ncalls, joined, session, sessVars, coVars>>

\* iter_any() raises: payload error, total timeout, anything else
StreamFails ==
  /\ pc = "streaming"
  /\ \E kind \in {"client", "timeout", "unknown"} : Fail(kind, <<>>)
  /\ UNCHANGED <<call, request, resp, pos, buffer, decoded, posts, ncalls, joined, session, sessVars, coVars>>

\* response.json(): strict decoding, then json.loads
ResponseJson(body) ==
  IF StrictDecodable(body) THEN JsonLoads(DecodeIgnore(body)) ELSE JErr

\* the non-streaming branch on the decoded body
JsonBranch(result) == IF result = JErr THEN Raise ELSE NonStreamContent(result)

Finish(r) ==
  IF r.raised THEN Fail("unknown", r.frags)
  ELSE /\ emitted' = emitted \o r.frags
       /\ pc' = "done"
       /\ failure' = "none"

\* lines 193-201
ReadJsonBody ==
  /\ pc = "json_body"
  /\ Finish(JsonBranch(ResponseJson(resp.body)))
  /\ pos' = Len(resp.body)
  /\ UNCHANGED <<call, request, resp, buffer, decoded, posts, ncalls, joined, session, sessVars, coVars>>

\* the transport fails while response.json() reads the body
JsonBodyFails ==
  /\ pc = "json_body"
  /\ \E kind \in {"client", "timeout"} : Fail(kind, <<>>)
  /\ UNCHANGED <<call, request, resp, pos, buffer, decoded, posts, ncalls, joined, session, sessVars, coVars>>

(***************************************************************************)
(* The text of a fragment, and the stream=False callers that join the      *)
(* fragments: translate_pm_to_dev, translate_dev_to_pm, the web endpoints  *)
(***************************************************************************)
\* 请输入有效的产品需求
PromptRequirementText ==
  <<35831, 36755, 20837, 26377, 25928, 30340, 20135, 21697, 38656, 27714>>

\* 请输入有效的技术方案
PromptSolutionText ==
  <<35831, 36755, 20837, 26377, 25928, 30340, 25216, 26415, 26041, 26696>>

\* 【系统错误】
SystemErrorPrefix ==
  <<12304, 31995, 32479, 38169, 35823, 12305>>

\* "API错误 (HTTP ", before the status code
GenericPrefix ==
  <<65, 80, 73, 38169, 35823, 32, 40, 72, 84, 84, 80, 32>>

\* 【网络错误】无法连接到DeepSeek API:
NetworkErrorPrefix ==
  <<12304, 32593, 32476, 38169, 35823, 12305, 26080, 27861, 36830,
    25509, 21040, 68, 101, 101, 112, 83, 101, 101, 107, 32, 65, 80, 73,
    58, 32>>

\* 请检查：\n1. 网络连接是否正常\n2. API地址是否正确\n3. 防火墙设置
ChecklistText ==
  <<35831, 26816, 26597, 65306, 10, 49, 46, 32, 32593, 32476, 36830,
    25509, 26159, 21542, 27491, 24120, 10, 50, 46, 32, 65, 80, 73,
    22320, 22336, 26159, 21542, 27491, 30830, 10, 51, 46, 32, 38450,
    28779, 22681, 35774, 32622>>

\* 【HTTP错误】请求失败:
HttpErrorPrefix ==
  <<12304, 72, 84, 84, 80, 38169, 35823, 12305, 35831, 27714, 22833,
    36133, 58, 32>>

\* 【超时错误】API请求超时，请稍后重试
TimeoutText ==
  <<12304, 36229, 26102, 38169, 35823, 12305, 65, 80, 73, 35831, 27714,
    36229, 26102, 65292, 35831, 31245, 21518, 37325, 35797>>

\* 【未知错误】:
UnknownErrorPrefix ==
  <<12304, 26410, 30693, 38169, 35823, 12305, 58, 32>>

\* str(n) for a natural number
RECURSIVE Digits(_)
Digits(n) ==
  IF n < 10 THEN <<Ord["0"] + n>> ELSE Digits(n \div 10) \o <<Ord["0"] + (n % 10)>>

\* str(n) for an integer
IntStr(n) == IF n < 0 THEN <<Ord["-"]>> \o Digits(0 - n) ELSE Digits(n)

\* repr(x) and str(x) of a value json.loads returned; the repr of a string
\* is taken for strings without quotes, backslashes or control characters
RECURSIVE PyRepr(_), ReprItems(_, _), ReprMembers(_, _)
PyRepr(x) ==
  CASE x.t = "null" -> <<78, 111, 110, 101>>
    [] x.t = "bool" -> IF x.b THEN <<84, 114, 117, 101>>
                       ELSE <<70, 97, 108, 115, 101>>
    [] x.t = "num" -> IntStr(x.n)
    [] x.t = "str" -> <<39>> \o x.s \o <<39>>
    [] x.t = "arr" -> <<91>> \o ReprItems(x.a, 1) \o <<93>>
    [] x.t = "obj" -> <<123>> \o ReprMembers(x, 1) \o <<125>>

ReprItems(a, i) ==
  IF i > Len(a) THEN <<>>
  ELSE (IF i > 1 THEN <<44, 32>> ELSE <<>>) \o PyRepr(a[i]) \o ReprItems(a, i + 1)

ReprMembers(d, i) ==
  IF i > Len(d.k) THEN <<>>
  ELSE (IF i > 1 THEN <<44, 32>> ELSE <<>>)
         \o <<39>> \o d.k[i] \o <<39, 58, 32>> \o PyRepr(d.v[i])
         \o ReprMembers(d, i + 1)

PyStr(x) == IF x.t = "str" THEN x.s ELSE PyRepr(x)

\* error_msg formatted into the f-string of line 145
MessageText(msg) ==
  IF msg.t = "generic" THEN GenericPrefix \o IntStr(msg.status) \o <<41>>
  ELSE PyStr(msg)

\* whether the fragment is a str: every diagnostic is one, a content
\* fragment is whatever value the payload held
IsStr(f) == f.kind = "content" => f.val.t = "str"

\* the characters of a fragment that is a str; the description str(e) of an
\* exception is left out of the text of its diagnostic
Text(f) ==
  CASE f.kind = "content" -> f.val.s
    [] f.kind = "prompt_requirement" -> PromptRequirementText
    [] f.kind = "prompt_solution" -> PromptSolutionText
    [] f.kind = "system_error" -> SystemErrorPrefix \o MessageText(f.val)
    [] f.kind = "network_error" -> NetworkErrorPrefix
    [] f.kind = "checklist" -> ChecklistText
    [] f.kind = "http_error" -> HttpErrorPrefix
    [] f.kind = "timeout_error" -> TimeoutText
    [] f.kind = "unknown_error" -> UnknownErrorPrefix

\* the items from the i-th on, with the empty separator between them
RECURSIVE JoinFrom(_, _)
JoinFrom(parts, i) ==
  IF i > Len(parts) THEN <<>>
  ELSE Text(parts[i]) \o JoinFrom(parts, i + 1)

\* "".join(parts): TypeError when an item is not a str
Join(parts) ==
  IF \A i \in 1..Len(parts) : IsStr(parts[i])
  THEN [raised |-> FALSE, text |-> JoinFrom(parts, 1)]
  ELSE [raised |-> TRUE, text |-> <<>>]

\* a stream=False caller: its loop appended every fragment of the stream to
\* content_parts and the stream has ended; it returns "".join(content_parts)
JoinParts ==
  /\ pc = "done"
  /\ joined = NotJoined
  /\ joined' = Join(emitted)
  /\ UNCHANGED <<pc, call, request, resp, pos, buffer, decoded, emitted,
                 failure, posts, ncalls, session, sessVars, coVars>>

(***************************************************************************)
(* Coroutines sharing one translator: get_session(), close(),              *)
(* test_connection() and translation calls, interleaved at their awaits    *)
(***************************************************************************)
\* number of coroutines
NProcs == 2
\* number of sessions one behaviour may create
MaxSessions == 3

Procs == 1..NProcs

\* int(os.getenv("DEEPSEEK_MAX_TOKENS", "2000"))
max_tokens == 2000

\* test_data["max_tokens"] = 10
TestMaxTokens == 10

\* the request data of a translation call
TranslationRequest == [stream |-> TRUE, max_tokens |-> max_tokens]

\* the request data of test_connection()
TestRequest == [stream |-> FALSE, max_tokens |-> TestMaxTokens]

\* a coroutine: the operation it runs, where it stands in it, the session
\* handle it holds, the requests it posted and, for test_connection, how its
\* request ended and the value it returns
Idle ==
  [op |-> "none", pc |-> "idle", session |-> None, result |-> "none",
   sent |-> <<>>, outcome |-> "none"]

\* the guard that keeps the number of sessions within MaxSessions
MayAcquire == NeedsSession => created < MaxSessions

\* await self.get_session() called on its own; the caller holds the result
GetSessionCall(p) ==
  /\ co[p].pc = "idle"
  /\ _translator_instance # None
  /\ MayAcquire
  /\ get_session
  /\ co' = [co EXCEPT ![p] = [Idle EXCEPT !.op = "get_session", !.pc = "done",
                                          !.session = _session']]
  /\ UNCHANGED <<callVars, _translator_instance>>

\* close() up to its await: the condition, then session.close() marks the
\* session closed before it suspends; a false condition returns at once
CloseBegin(p, caller) ==
  IF _session # None /\ _session \notin closed
  THEN /\ closed' = closed \cup {_session}
       /\ UNCHANGED <<_session, created>>
       /\ co' = [co EXCEPT ![p] = [caller EXCEPT !.pc = "close_await",
                                                 !.session = None]]
  ELSE /\ UNCHANGED sessVars
       /\ co' = [co EXCEPT ![p] = [caller EXCEPT !.pc = "done",
                                                 !.session = None]]

\* await self.close() called on its own
CloseCall(p) ==
  /\ co[p].pc = "idle"
  /\ _translator_instance # None
  /\ CloseBegin(p, [Idle EXCEPT !.op = "close"])
  /\ UNCHANGED <<callVars, _translator_instance>>

\* close() after its await: self._session = None
CloseResume(p) ==
  /\ co[p].pc = "close_await"
  /\ co[p].op # "cleanup"
  /\ _session' = None
  /\ UNCHANGED <<closed, created>>
  /\ co' = [co EXCEPT ![p].pc = "done"]
  /\ UNCHANGED <<callVars, _translator_instance>>

\* a translation call up to its await on session.post(...)
TranslateCall(p) ==
  /\ co[p].pc = "idle"
  /\ _translator_instance # None
  /\ MayAcquire
  /\ get_session
  /\ co' = [co EXCEPT ![p] = [Idle EXCEPT !.op = "translate",
                                          !.pc = "call_await",
                                          !.session = _session',
                                          !.sent = <<TranslationRequest>>]]
  /\ UNCHANGED <<callVars, _translator_instance>>

\* the translation call's generator ends
TranslateEnd(p) ==
  /\ co[p].pc = "call_await"
  /\ UNCHANGED sessVars
  /\ co' = [co EXCEPT ![p].pc = "done"]
  /\ UNCHANGED <<callVars, _translator_instance>>

\* test_connection() up to its await on session.post(...)
TestCall(p) ==
  /\ co[p].pc = "idle"
  /\ _translator_instance # None
  /\ MayAcquire
  /\ get_session
  /\ co' = [co EXCEPT ![p] = [Idle EXCEPT !.op = "test_connection",
                                          !.pc = "test_await",
                                          !.session = _session',
                                          !.sent = <<TestRequest>>]]
  /\ UNCHANGED <<callVars, _translator_instance>>

\* how the request of test_connection() can end: status 200 and a body that
\* response.json() reads, status 200 and a body on which it raises, another
\* status, an exception of session.post
TestOutcomes == {"200_json", "200_unreadable", "500", "post_raises"}

\* response.status, 0 when there is no response
OutcomeStatus(outcome) ==
  CASE outcome \in {"200_json", "200_unreadable"} -> 200
    [] outcome = "500" -> 500
    [] OTHER -> 0

\* "return True" moved before "await response.json()"
TestResultByStatusOnly(outcome) ==
  IF outcome \in {"200_json", "200_unreadable"} THEN "true" ELSE "false"

\* return True once the body of a 200 response was read as JSON; return
\* False on another status and, from "except Exception", on any exception
TestResult(outcome) == IF outcome = "200_json" THEN "true" ELSE "false"

\* the request ends; the finally block then runs close() up to its await
TestFinally(p) ==
  /\ co[p].pc = "test_await"
  /\ \E outcome \in TestOutcomes :
       CloseBegin(p, [co[p] EXCEPT !.outcome = outcome,
                                   !.result = TestResult(outcome)])
  /\ UNCHANGED <<callVars, _translator_instance>>

\* the caller takes the operation's result
Return(p) ==
  /\ co[p].pc = "done"
  /\ UNCHANGED sessVars
  /\ co' = [co EXCEPT ![p] = Idle]
  /\ UNCHANGED <<callVars, _translator_instance>>

\* cleanup() / close_translator() up to the await in close(); when there is
\* no translator, or close() has nothing to await, it runs to its end
CleanupCall(p) ==
  /\ co[p].pc = "idle"
  /\ IF _translator_instance = None
     THEN /\ co' = [co EXCEPT ![p] = [Idle EXCEPT !.op = "cleanup", !.pc = "done"]]
          /\ UNCHANGED <<sessVars, _translator_instance>>
     ELSE /\ CloseBegin(p, [Idle EXCEPT !.op = "cleanup"])
          /\ _translator_instance' =
               IF co'[p].pc = "done" THEN None ELSE _translator_instance
  /\ UNCHANGED callVars

\* close() resumes in close_translator(): self._session = None, then
\* _translator_instance = None
CleanupResume(p) ==
  /\ co[p].pc = "close_await"
  /\ co[p].op = "cleanup"
  /\ _session' = None
  /\ _translator_instance' = None
  /\ UNCHANGED <<closed, created>>
  /\ co' = [co EXCEPT ![p].pc = "done"]
  /\ UNCHANGED callVars

(***************************************************************************)
(* A translation call in flight while coroutines close the session         *)
(***************************************************************************)
\* the responses used when the session is closed under the call
ResponsesUnderClose ==
  {[status |-> 200, body |-> StreamTypical],
   [status |-> 429, body |-> BodyRateLimited]}

\* the text translated while the session is closed under the call
TextUnderClose == <<32, 104, 105>>

\* translate_pm_to_dev_stream(TextUnderClose)
TranslateUnderClose == TranslateStream(TextUnderClose, "pm-to-dev")

\* the coroutine that closes the session under the call
Closer == 1

\* the call awaits on the network: session.post, response.text(),
\* iter_any(), response.json()
InFlight == pc \in {"posting", "error_body", "streaming", "json_body"}

\* the session the call uses is still open
SessionOpen == session \notin closed

\* the response's status line and headers arrive on the open session
ResponseArrivesOpen ==
  /\ pc = "posting"
  /\ SessionOpen
  /\ \E r \in ResponsesUnderClose :
       /\ resp' = r
       /\ pc' = Branch(r.status, call.stream)
  /\ UNCHANGED <<call, request, pos, buffer, decoded, emitted, failure, posts,
                 ncalls, joined, session, sessVars, coVars>>

ReadErrorBodyOpen == SessionOpen /\ ReadErrorBody

\* the sizes of the next chunk: up to a newline, or all the rest
LineSizes ==
  {n \in 1..(Len(resp.body) - pos) :
     resp.body[pos + n] = 10 \/ pos + n = Len(resp.body)}

\* iter_any() delivers the next bytes on the open session
ReceiveChunkOpen ==
  /\ pc = "streaming"
  /\ SessionOpen
  /\ \E n \in LineSizes :
       Deliver(n, DecodeIgnore(SubSeq(resp.body, pos + 1, pos + n)),
               ProcessChunk(buffer, SubSeq(resp.body, pos + 1, pos + n)))
  /\ UNCHANGED <<call, request, resp, posts, ncalls, joined, session, sessVars,
                 coVars>>

StreamExhaustedOpen == SessionOpen /\ StreamExhausted

\* the session was closed under the call: the connector closed the call's
\* connection and the await the call is suspended at raises
ClosedUnderCall ==
  /\ InFlight
  /\ ~SessionOpen
  /\ \E kind \in ExceptionKinds : Fail(kind, <<>>)
  /\ UNCHANGED <<call, request, resp, pos, buffer, decoded, posts, ncalls,
                 joined, session, sessVars, coVars>>

Init ==
  /\ pc = "idle"
  /\ call = NoCall
  /\ request = NoRequest
  /\ resp = NoResponse
  /\ pos = 0
  /\ buffer = <<>>
  /\ decoded = <<>>
  /\ emitted = <<>>
  /\ failure = "none"
  /\ posts = 0
  /\ ncalls = 0
  /\ joined = NotJoined
  /\ session = None
  /\ _session = None
  /\ closed = {}
  /\ created = 0
  /\ co = [p \in Procs |-> Idle]
  /\ _translator_instance = Translator

Next ==
  \/ translate_pm_to_dev_stream
  \/ translate_dev_to_pm_stream
  \/ call_non_streaming
  \/ PostFails
  \/ ResponseArrives
  \/ ReadErrorBody
  \/ ErrorBodyFails
  \/ ReceiveChunk
  \/ StreamExhausted
  \/ StreamFails
  \/ ReadJsonBody
  \/ JsonBodyFails
  \/ JoinParts

Spec == Init /\ [][Next]_vars

\* the await the call is suspended at raises: the remote fails, or the
\* total timeout of the session (ClientTimeout(total=60)) fires
AwaitRaises ==
  \/ PostFails
  \/ ErrorBodyFails
  \/ StreamFails
  \/ JsonBodyFails

\* a call does not stay at one await for ever: the remote lets it go on
\* (a response, bytes, the end of the stream) or the await raises
SpecLive == Spec /\ WF_vars(AwaitRaises)

NextSession ==
  \E p \in Procs :
    \/ GetSessionCall(p)
    \/ CloseCall(p)
    \/ CloseResume(p)
    \/ TranslateCall(p)
    \/ TranslateEnd(p)
    \/ TestCall(p)
    \/ TestFinally(p)
    \/ CleanupCall(p)
    \/ CleanupResume(p)
    \/ Return(p)

SpecSession == Init /\ [][NextSession]_vars

NextClose ==
  \/ TranslateUnderClose
  \/ ResponseArrivesOpen
  \/ ReadErrorBodyOpen
  \/ ReceiveChunkOpen
  \/ StreamExhaustedOpen
  \/ ClosedUnderCall
  \/ \E p \in {Closer} :
       \/ CloseCall(p)
       \/ CloseResume(p)
       \/ TestCall(p)
       \/ TestFinally(p)
       \/ CleanupCall(p)
       \/ CleanupResume(p)
       \/ Return(p)

SpecClose == Init /\ [][NextClose]_vars

(***************************************************************************)
(* Properties of the streaming decoder and of the call                     *)
(***************************************************************************)
IsContent(f) == f.kind = "content"

\* the content fragments among frags, in order
ContentOf(frags) == SelectSeq(frags, IsContent)

IsPrefix(a, b) == Len(a) <= Len(b) /\ SubSeq(b, 1, Len(a)) = a

\* a streaming call whose response had status 200
Streamed == call.stream /\ resp.status = 200 /\ pc \in {"streaming", "done"}

\* the streamed response was read to its end and nothing failed
StreamedToEnd == Streamed /\ pc = "done" /\ failure = "none"

\* the newline-terminated lines of the text decoded so far
LinesSoFar == CompleteLines(SplitNewline(decoded))

IsNewlineByte(b) == b = 10

\* valid UTF-8 in which every line ends with a newline
WellFormedStream(bs) == StrictDecodable(bs) /\ (bs = <<>> \/ bs[Len(bs)] = 10)

\* C1: for a well-formed SSE byte stream, whatever the cut into chunks, the
\* fragments emitted are those emitted when the whole stream arrives as one
\* chunk, in the same order.
C1_ChunkBoundaryInsensitive ==
  (StreamedToEnd /\ WellFormedStream(resp.body))
    => emitted = ProcessChunk(<<>>, resp.body).frags

\* C2: a line is processed only once its newline has been received: the
\* content emitted so far is exactly that of the newline-terminated lines of
\* the text decoded so far, there are no more fragments than newlines
\* received, the carried buffer holds no newline, and a final line without a
\* newline stays in the buffer, never decoded.
C2_OnlyCompleteLines ==
  Streamed =>
    /\ ContentOf(emitted) = ProcessLines(LinesSoFar).frags
    /\ Len(ContentOf(emitted))
         <= Len(SelectSeq(SubSeq(resp.body, 1, pos), IsNewlineByte))
    /\ pc = "streaming" =>
         /\ \A i \in 1..Len(buffer) : buffer[i] # 10
         /\ buffer = LastLine(SplitNewline(decoded))
    /\ StreamedToEnd => buffer = LastLine(SplitNewline(decoded))

\* a stream ended with an unterminated last line that holds a valid event
C2_Witness ==
  /\ StreamedToEnd
  /\ pos = Len(resp.body)
  /\ buffer # <<>>
  /\ ProcessLine(buffer).frags # <<>>
  /\ Len(emitted) = 1

\* choices[0].delta.content of a decoded payload, if the payload is an
\* object of that shape and the content is not empty
SafeContent(obj) ==
  IF obj.t = "obj" /\ HasKey(obj, KeyChoices)
  THEN LET choices == GetKey(obj, KeyChoices)
       IN  IF choices.t = "arr" /\ choices.a # <<>> /\ choices.a[1].t = "obj"
                /\ HasKey(choices.a[1], KeyDelta)
           THEN LET delta == GetKey(choices.a[1], KeyDelta)
                IN  IF delta.t = "obj" /\ HasKey(delta, KeyContent)
                         /\ Truthy(GetKey(delta, KeyContent))
                    THEN <<ContentFrag(GetKey(delta, KeyContent))>>
                    ELSE <<>>
           ELSE <<>>
  ELSE <<>>

\* what one line of the response contributes
LineContent(raw) ==
  LET line == Strip(raw)
  IN  IF StartsWith(line, DataPrefix)
      THEN SafeContent(JsonLoads(SubSeq(line, 7, Len(line))))
      ELSE <<>>

RECURSIVE ContentsOfLines(_)
ContentsOfLines(lines) ==
  IF lines = <<>> THEN <<>>
  ELSE LineContent(Head(lines)) \o ContentsOfLines(Tail(lines))

\* the non-empty content values of the complete lines of a response body
ExpectedFragments(bs) ==
  ContentsOfLines(CompleteLines(SplitNewline(DecodeIgnore(bs))))

\* C3: when a streamed 200 response ends without failure, the fragments
\* emitted are exactly the non-empty choices[0].delta.content values of the
\* complete data lines of the response, one per line, in arrival order.
C3_ExactContents == StreamedToEnd => emitted = ExpectedFragments(resp.body)

\* a complete "data: " line whose payload json.loads rejects
IsMalformedData(raw) ==
  LET line == Strip(raw)
  IN  /\ StartsWith(line, DataPrefix)
      /\ SubSeq(line, 7, Len(line)) # DoneSentinel
      /\ JsonLoads(SubSeq(line, 7, Len(line))) = JErr

IsNotMalformedData(raw) == ~IsMalformedData(raw)

\* C4: a data line whose payload is not JSON is skipped: the content
\* emitted is that of the other complete lines, as if the malformed line
\* were absent, no diagnostic is emitted for it and the call does not end
\* on it.
C4_MalformedLineSkipped ==
  Streamed =>
    /\ ContentOf(emitted)
         = ProcessLines(SelectSeq(LinesSoFar, IsNotMalformedData)).frags
    /\ failure = "none" => emitted = ContentOf(emitted)
    /\ (failure = "none" /\ pos < Len(resp.body)) => pc = "streaming"

\* a malformed line was processed and a line after it emitted its content
C4_Witness ==
  /\ StreamedToEnd
  /\ Len(LinesSoFar) = 2
  /\ IsMalformedData(LinesSoFar[1])
  /\ emitted = <<ContentFrag(JStr(<<88>>))>>

\* C5: a response whose status is not 200 yields exactly one fragment and
\* the call ends; its body is never decoded as SSE content; for 429 with
\* body {"error":{"message":"rate limited"}} the fragment carries
\* "rate limited".
C5_ErrorStatusOneFragment ==
  (resp.status \notin {0, 200}) =>
    /\ pc \in {"error_body", "done"}
    /\ buffer = <<>> /\ decoded = <<>>
    /\ pc = "error_body" => emitted = <<>>
    /\ pc = "done" =>
         /\ Len(emitted) = 1
         /\ ~IsContent(emitted[1])
         /\ failure = "none" => emitted[1].kind = "system_error"
         /\ (failure = "none" /\ resp.status = 429
             /\ resp.body = BodyRateLimited)
              => emitted[1].val = JStr(TextRateLimited)

\* the 429 response of the claim was handled
C5_Witness ==
  /\ pc = "done"
  /\ resp = [status |-> 429, body |-> BodyRateLimited]
  /\ emitted = <<Fragment("system_error", JStr(TextRateLimited))>>

\* the text is empty or every character of it is whitespace
OnlyWhitespace(text) == \A i \in 1..Len(text) : text[i] \in PyWhitespace

\* C6: for an empty or whitespace-only text, either translation stream
\* yields exactly one prompt-for-input fragment and ends; no request is
\* built, no session is acquired or created, no HTTP request is issued and
\* the session state is unchanged.
C6_EmptyInputShortCircuit ==
  [][(ncalls' = ncalls + 1 /\ call'.stream /\ OnlyWhitespace(call'.text))
       => /\ emitted' = <<Prompt(call'.direction)>>
          /\ pc' = "done"
          /\ request' = NoRequest
          /\ posts' = posts
          /\ sessVars' = sessVars]_vars

\* a whitespace-only call ended while a session from an earlier call exists
C6_Witness ==
  /\ pc = "done"
  /\ call.text = <<12288>>
  /\ emitted = <<Prompt(call.direction)>>
  /\ posts = 1
  /\ _session # None

DiagnosticKinds ==
  {"network_error", "checklist", "http_error", "timeout_error", "unknown_error"}

\* C7: every failure at the network call, whatever its kind and wherever it
\* occurs, ends the call normally after at least one diagnostic fragment; no
\* exception leaves the call.
C7_FailuresBecomeDiagnostics ==
  /\ pc # "raised"
  /\ failure # "none" =>
       /\ pc = "done"
       /\ emitted # <<>>
       /\ emitted[Len(emitted)].kind \in DiagnosticKinds
       /\ \E i \in 1..Len(emitted) : emitted[i] = Diagnostic(failure)[1]

\* a timeout in the middle of a streamed body
C7_Witness ==
  /\ failure = "timeout"
  /\ pc = "done"
  /\ resp.status = 200
  /\ pos > 0 /\ pos < Len(resp.body)

\* C8: fragments already emitted survive a later failure: within a call the
\* emitted sequence only grows at its end, a failure appends its diagnostic
\* after the fragments emitted before it, and nothing follows the end of
\* the call.
C8_EmittedSurvivesFailure ==
  [][(ncalls' = ncalls)
       => /\ IsPrefix(emitted, emitted')
          /\ pc = "done" => emitted' = emitted
          /\ (failure = "none" /\ failure' # "none")
               => /\ emitted = ContentOf(emitted)
                  /\ emitted' = ContentOf(emitted') \o Diagnostic(failure')
                  /\ pc' = "done"]_vars

\* a timeout after two content fragments
C8_Witness ==
  /\ failure = "timeout"
  /\ Len(emitted) = 3
  /\ IsContent(emitted[1]) /\ IsContent(emitted[2])
  /\ emitted[3] = Fragment("timeout_error", JNull)

(***************************************************************************)
(* Properties of the session lifecycle                                     *)
(***************************************************************************)
\* the sessions created and not closed
LiveSessions == (1..created) \ closed

\* coroutine p calls close() in this step
ClosesNow(p) == co[p].pc = "idle" /\ co'[p].op = "close"

\* a close() run by p, on its own or in test_connection's finally, ends
CloseEndsNow(p) ==
  /\ co'[p].op \in {"close", "test_connection"}
  /\ co[p].pc # "done"
  /\ co'[p].pc = "done"

\* coroutine p calls get_session() in this step and holds what it returned
GetsSessionNow(p) == co[p].pc = "idle" /\ co'[p].op = "get_session"

\* C9: session lifecycle under sequential use.  Every close() that ends
\* leaves the translator without a usable session; a close() called in
\* that state (a second close in succession, or a close before any session
\* was created) changes nothing and returns at once; and every
\* get_session() returns the translator's session, which is not closed, and
\* which is a session that did not exist before when the translator had
\* none or a closed one.
C9_SequentialLifecycle ==
  [][\A p \in Procs :
       /\ CloseEndsNow(p) => (_session' = None \/ _session' \in closed')
       /\ (ClosesNow(p) /\ (_session = None \/ _session \in closed))
            => /\ <<_session, closed, created>>' = <<_session, closed, created>>
               /\ co'[p].pc = "done"
       /\ GetsSessionNow(p)
            => /\ co'[p].session = _session'
               /\ co'[p].session # None
               /\ co'[p].session \notin closed'
               /\ (_session = None \/ _session \in closed)
                    => /\ co'[p].session \notin 1..created
                       /\ closed' = closed]_vars

\* one coroutine's close() has returned, and the get_session() after it
\* returned session 2 while session 1 is the only closed one
C9_Witness ==
  \E p, q \in Procs :
    /\ p # q
    /\ co[q].op = "close" /\ co[q].pc = "done"
    /\ co[p].op = "get_session" /\ co[p].session = 2
    /\ _session = 2
    /\ closed = {1}

\* C10: under every interleaving at most one session is live, and a live
\* session is the one the translator references.
C10_AtMostOneLiveSession ==
  /\ Cardinality(LiveSessions) <= 1
  /\ \A s \in LiveSessions : s = _session

(***************************************************************************)
(* Properties of the stream=False callers                                  *)
(***************************************************************************)
\* the texts of frags[1..i] one after the other
RECURSIVE TextsUpTo(_, _)
TextsUpTo(frags, i) ==
  IF i = 0 THEN <<>> ELSE TextsUpTo(frags, i - 1) \o Text(frags[i])

\* C11: buffered mode equals streaming mode: whatever the stream produced,
\* the stream=False caller returns a string, and that string is the texts of
\* the stream's fragments in order with nothing added, dropped or put
\* between them.
C11_BufferedEqualsStreamed ==
  joined # NotJoined =>
    /\ ~joined.raised
    /\ joined.text = TextsUpTo(emitted, Len(emitted))

(***************************************************************************)
(* Properties of the sentinel line                                         *)
(***************************************************************************)
\* a complete line that reads "data: [DONE]" once stripped
IsDoneLine(raw) == Strip(raw) = DataPrefix \o DoneSentinel

IsNotDoneLine(raw) == ~IsDoneLine(raw)

\* C12: a complete line "data: [DONE]" emits nothing and does not end the
\* call: what is emitted is what the same lines without the [DONE] lines
\* emit, a call that ended without failure has read the byte stream to its
\* end, and a call without failure has emitted no diagnostic.
C12_DoneIsSkipped ==
  Streamed =>
    /\ ContentOf(emitted)
         = ProcessLines(SelectSeq(LinesSoFar, IsNotDoneLine)).frags
    /\ failure = "none"
         => emitted = ProcessLines(SelectSeq(LinesSoFar, IsNotDoneLine)).frags
    /\ (pc = "done" /\ failure = "none") => pos = Len(resp.body)

\* the event after a [DONE] line was emitted and the stream read to its end
C12_Witness ==
  /\ StreamedToEnd
  /\ resp.body = StreamAfterDone
  /\ IsDoneLine(LinesSoFar[1])
  /\ emitted = <<ContentFrag(JStr(<<89>>))>>

(***************************************************************************)
(* Properties of the connectivity self-test                                *)
(***************************************************************************)
\* test_connection() run by p returns in this step
TestEndsNow(p) ==
  /\ co'[p].op = "test_connection"
  /\ co[p].pc # "done"
  /\ co'[p].pc = "done"

\* what holds of every test_connection() besides the value it returns: one
\* request, non-streaming, with max_tokens 10; a boolean is returned; the
\* translator's session reference is then None or a closed session, so that
\* the next get_session() creates a session
TestRequestAndSession(p) ==
  /\ TestEndsNow(p)
       => /\ co'[p].sent = <<[stream |-> FALSE, max_tokens |-> 10]>>
          /\ co'[p].result \in {"true", "false"}
          /\ _session' = None \/ _session' \in closed'
  /\ (GetsSessionNow(p) /\ (_session = None \/ _session \in closed))
       => /\ co'[p].session \notin 1..created
          /\ co'[p].session \notin closed'

\* C13 as claimed: test_connection() issues exactly one non-streaming
\* request with max_tokens 10, returns true exactly when the response status
\* is 200 and false otherwise, never raises, leaves the translator without
\* an open session, and the next get_session() creates a fresh session.
C13_SelfTest ==
  [][\A p \in Procs :
       /\ TestRequestAndSession(p)
       /\ TestEndsNow(p)
            => (co'[p].result = "true" <=> OutcomeStatus(co'[p].outcome) = 200)]_vars

\* C13 amended: as claimed, except that test_connection() returns true
\* exactly when the response status is 200 and its body was read as JSON; a
\* 200 response whose body cannot be read as JSON gives false, like every
\* other status and every exception.
C13_SelfTestAmended ==
  [][\A p \in Procs :
       /\ TestRequestAndSession(p)
       /\ TestEndsNow(p)
            => (co'[p].result = "true" <=> co'[p].outcome = "200_json")]_vars

\* a self-test whose 200 response had an unreadable body has returned false
\* and the session it used is closed and no longer referenced
C13_Witness ==
  \E p \in Procs :
    /\ co[p].op = "test_connection" /\ co[p].pc = "done"
    /\ co[p].outcome = "200_unreadable"
    /\ co[p].result = "false"
    /\ _session = None
    /\ closed = {1}

(***************************************************************************)
(* Properties of the shutdown                                              *)
(***************************************************************************)
\* cleanup() run by p returns in this step
CleanupEndsNow(p) ==
  /\ co'[p].op = "cleanup"
  /\ co[p].pc # "done"
  /\ co'[p].pc = "done"

\* C14: shutdown leaves no live session: when cleanup() has completed the
\* global translator reference is cleared and, from then on, every session
\* the translator created is closed, whatever interleaved with the shutdown
\* at its await; a cleanup() called after that changes nothing.
C14_ShutdownClosesEverySession ==
  [][\A p \in Procs :
       /\ CleanupEndsNow(p)
            => /\ _translator_instance' = None
               /\ (1..created') \subseteq closed'
       /\ _translator_instance = None
            => /\ _translator_instance' = None
               /\ (1..created') \subseteq closed'
       /\ (co[p].pc = "idle" /\ co'[p].op = "cleanup"
           /\ _translator_instance = None)
            => /\ <<_session, closed, created>>' = <<_session, closed, created>>
               /\ co'[p].pc = "done"]_vars

(***************************************************************************)
(* Properties of payloads that are JSON of another shape                   *)
(***************************************************************************)
\* C15: error isolation covers every payload: the lines completed by a
\* chunk, whatever the shape of their JSON payloads, leave the call
\* streaming without failure and without diagnostic, and the content emitted
\* is that of the well-shaped events among all complete lines, those after
\* an ill-shaped payload included.
C15_IllShapedPayloadSkipped ==
  [][(pc = "streaming" /\ pos' > pos)
       => /\ failure' = "none"
          /\ pc' = "streaming"
          /\ emitted' = ContentsOfLines(LinesSoFar')]_vars

(***************************************************************************)
(* Properties of the diagnostic of a non-200 response                      *)
(***************************************************************************)
\* the body is a JSON object whose "error" member is an object that has a
\* "message" member
HasErrorMessage(j) ==
  /\ j.t = "obj"
  /\ \E i \in 1..Len(j.k) : j.k[i] = KeyError
  /\ GetKey(j, KeyError).t = "obj"
  /\ \E i \in 1..Len(GetKey(j, KeyError).k) : GetKey(j, KeyError).k[i] = KeyMessage

\* the generic text for a status: "API错误 (HTTP <status>)"
GenericTextOf(status) == GenericPrefix \o IntStr(status) \o <<41>>

KindsOf(frags) == [i \in 1..Len(frags) |-> frags[i].kind]

\* the diagnostic fragments each kind of failure is to give
ExpectedShape(kind) ==
  CASE kind = "connector" -> <<"network_error", "checklist">>
    [] kind = "timeout" -> <<"timeout_error">>
    [] kind = "client" -> <<"http_error">>
    [] kind = "unknown" -> <<"unknown_error">>

\* the category prefixes: the bracketed words for network, timeout, HTTP
\* and unknown errors
ExpectedCategory(kind) ==
  CASE kind = "connector" -> <<12304, 32593, 32476, 38169, 35823, 12305>>
    [] kind = "timeout" -> <<12304, 36229, 26102, 38169, 35823, 12305>>
    [] kind = "client" -> <<12304, 72, 84, 84, 80, 38169, 35823, 12305>>
    [] kind = "unknown" -> <<12304, 26410, 30693, 38169, 35823, 12305>>

\* C17: each kind of failure gives its own diagnostic, emitted last: after
\* the content fragments come the connection diagnostic and then the
\* checklist for a failure to connect, one timeout fragment for a timeout,
\* one fragment for another client failure and one for an unexpected
\* failure; the first of them starts with the category prefix of its kind,
\* the prefixes of two kinds differ, and no other diagnostic is emitted.
C17_DiagnosticPerFailureKind ==
  /\ failure # "none" =>
       /\ pc = "done"
       /\ SubSeq(emitted, 1, Len(ContentOf(emitted))) = ContentOf(emitted)
       /\ KindsOf(SubSeq(emitted, Len(ContentOf(emitted)) + 1, Len(emitted)))
            = ExpectedShape(failure)
       /\ IsPrefix(ExpectedCategory(failure),
                   Text(emitted[Len(ContentOf(emitted)) + 1]))
       /\ \A k \in {"connector", "timeout", "client", "unknown"} \ {failure} :
            ~IsPrefix(ExpectedCategory(k),
                      Text(emitted[Len(ContentOf(emitted)) + 1]))
  /\ failure = "none" =>
       \A i \in 1..Len(emitted) :
         emitted[i].kind \in {"content", "system_error", "prompt_requirement",
                              "prompt_solution"}

\* the connection could not be established: the connection diagnostic, then
\* the checklist
C17_Witness ==
  /\ failure = "connector"
  /\ pc = "done"
  /\ KindsOf(emitted) = <<"network_error", "checklist">>
  /\ Text(emitted[2])[1] = 35831

(***************************************************************************)
(* Properties of a call whose session is closed under it                   *)
(***************************************************************************)
\* a coroutine closes a session in this step
SessionClosesNow == closed' # closed

\* the call in flight on a closed session leaves its await in this step
ClosedCallResumesNow == InFlight /\ ~SessionOpen /\ pc' # pc

\* a call that posts starts in this step
PostingCallStartsNow == ncalls' # ncalls /\ pc' = "posting"

Running == pc \notin {"idle", "done"}

\* a call starts in this step
CallStartsNow == ncalls' = ncalls + 1

\* C19: every translation call eventually completes its fragment sequence.
\* A step that starts a call on non-empty input issues exactly one POST and
\* no other step issues one; a call that started runs from an empty line
\* buffer, at position 0 of its own response, with a sequence that holds
\* nothing of the call before; a sequence that ended gets no further
\* fragment; and, the remote exhausting the stream, failing, or the total
\* timeout firing, a running call leads to its end.
C19_EveryCallCompletes ==
  /\ [][/\ CallStartsNow =>
             /\ buffer' = <<>> /\ pos' = 0 /\ decoded' = <<>>
             /\ IF EmptyInput(call'.text)
                THEN posts' = posts /\ pc' = "done"
                                    /\ emitted' = <<Prompt(call'.direction)>>
                ELSE posts' = posts + 1 /\ pc' = "posting" /\ emitted' = <<>>
        /\ ~CallStartsNow => posts' = posts /\ ncalls' = ncalls
        /\ (pc = "done" /\ ~CallStartsNow) => emitted' = emitted /\ pc' = "done"
        /\ posts' <= ncalls']_vars
  /\ (Running ~> pc = "done")

\* the second call ended after its own POST, having read its stream to the
\* end with an unfinished last line left in its buffer
C19_Witness ==
  /\ ncalls = 2
  /\ posts = 2
  /\ pc = "done"
  /\ failure = "none"
  /\ resp.status = 200
  /\ call.stream
  /\ pos = Len(resp.body)
  /\ decoded = DecodeIgnore(resp.body)
  /\ buffer # <<>>
  /\ emitted # <<>>

====
